---------------------------- MODULE Spec2Model ----------------------------
(***************************************************************************)
(* A model of crf2html (src/crf2html.go): the command line is parsed, the  *)
(* source (a directory tree or a ZIP/CRF archive) is enumerated, every     *)
(* entry is classified, decoded, resized and captioned, the textures are   *)
(* grouped by family, sorted, rendered into one page and written out.      *)
(*                                                                         *)
(* Strings are sequences of byte values (ASCII codes), so that splitting,  *)
(* lower-casing, extension extraction, escaping and Go's bytewise string   *)
(* comparison are computed as the code computes them.                      *)
(***************************************************************************)
EXTENDS Integers, Sequences, FiniteSets, TLC

(***************************************************************************)
(* Bounds of the model.                                                    *)
(***************************************************************************)
\* the largest number of entries the source holds
MaxEntries == 3
\* the largest width and height of a decoded image in SpecResize
MaxDim == 6
\* the largest -size value tried in SpecResize
MaxSize == 5
\* the largest number of words after the two paths in SpecArgs
MaxFlags == 3

(***************************************************************************)
(* Go string and path primitives used by main.                             *)
(***************************************************************************)
\* filepath.Separator on the platforms where archives' '/' is the separator
Separator == 47

Min(a, b) == IF a < b THEN a ELSE b

\* strings.ToLower on ASCII bytes
ToLower(s) ==
    [k \in 1..Len(s) |-> IF s[k] >= 65 /\ s[k] <= 90 THEN s[k] + 32 ELSE s[k]]

\* strings.Split(s, sep) for a one-byte separator: never an empty result
RECURSIVE Split(_, _)
Split(s, sep) ==
    IF \A k \in 1..Len(s) : s[k] # sep
    THEN <<s>>
    ELSE LET k == CHOOSE k \in 1..Len(s) :
                     s[k] = sep /\ \A j \in 1..(k - 1) : s[j] # sep
         IN  <<SubSeq(s, 1, k - 1)>> \o Split(SubSeq(s, k + 1, Len(s)), sep)

\* index of the last separator of a path, 0 when there is none
LastSep(path) ==
    LET S == {k \in 1..Len(path) : path[k] = Separator}
    IN  IF S = {} THEN 0 ELSE CHOOSE k \in S : \A j \in S : j <= k

\* filepath.Ext: the suffix from the last '.' of the last path element
Ext(path) ==
    LET D == {k \in (LastSep(path) + 1)..Len(path) : path[k] = 46}
    IN  IF D = {} THEN <<>>
        ELSE SubSeq(path, CHOOSE k \in D : \A j \in D : j <= k, Len(path))

\* a path with its trailing separators removed
RECURSIVE StripTrailingSep(_)
StripTrailingSep(path) ==
    IF Len(path) > 0 /\ path[Len(path)] = Separator
    THEN StripTrailingSep(SubSeq(path, 1, Len(path) - 1))
    ELSE path

\* filepath.Base: the last element of the path
Base(path) ==
    IF path = <<>> THEN <<46>>
    ELSE LET p == StripTrailingSep(path)
             b == SubSeq(p, LastSep(p) + 1, Len(p))
         IN  IF b = <<>> THEN <<Separator>> ELSE b

HasSuffix(s, suf) ==
    Len(suf) <= Len(s) /\ SubSeq(s, Len(s) - Len(suf) + 1, Len(s)) = suf

HasPrefix(s, pre) ==
    Len(pre) <= Len(s) /\ SubSeq(s, 1, Len(pre)) = pre

\* strings.TrimSuffix
TrimSuffix(s, suf) ==
    IF HasSuffix(s, suf) THEN SubSeq(s, 1, Len(s) - Len(suf)) ELSE s

\* strings.TrimPrefix
TrimPrefix(s, pre) ==
    IF HasPrefix(s, pre) THEN SubSeq(s, Len(pre) + 1, Len(s)) ELSE s

\* Go's < on strings: bytewise lexicographic order
StrLess(a, b) ==
    \E k \in 1..(Min(Len(a), Len(b)) + 1) :
        /\ \A j \in 1..(k - 1) : a[j] = b[j]
        /\ \/ k > Len(a) /\ k <= Len(b)
           \/ k <= Len(a) /\ k <= Len(b) /\ a[k] < b[k]

\* the decimal digits of a natural number, as fmt's %d prints them
RECURSIVE Digits(_)
Digits(n) ==
    IF n < 10 THEN <<48 + n>> ELSE Digits(n \div 10) \o <<48 + (n % 10)>>

\* fmt.Sprintf("%d", n)
Itoa(n) == IF n < 0 THEN <<45>> \o Digits(0 - n) ELSE Digits(n)

\* the value of a string of decimal digits
RECURSIVE DigitsValue(_)
DigitsValue(s) ==
    IF s = <<>> THEN 0
    ELSE 10 * DigitsValue(SubSeq(s, 1, Len(s) - 1)) + (s[Len(s)] - 48)

\* strconv.Atoi: an optional sign, then at least one decimal digit
Atoi(s) ==
    LET signed == Len(s) > 0 /\ s[1] \in {43, 45}
        body   == IF signed THEN Tail(s) ELSE s
        valid  == Len(body) > 0 /\ \A k \in 1..Len(body) : body[k] >= 48 /\ body[k] <= 57
        v      == DigitsValue(body)
    IN  IF valid
        THEN [ok |-> TRUE, val |-> IF signed /\ s[1] = 45 THEN 0 - v ELSE v]
        ELSE [ok |-> FALSE, val |-> 0]

\* the replacement html.EscapeString makes for one byte
EscapeByte(c) ==
    CASE c = 38 -> <<38, 97, 109, 112, 59>>     \* &  ->  &amp;
      [] c = 39 -> <<38, 35, 51, 57, 59>>       \* '  ->  &#39;
      [] c = 60 -> <<38, 108, 116, 59>>         \* <  ->  &lt;
      [] c = 62 -> <<38, 103, 116, 59>>         \* >  ->  &gt;
      [] c = 34 -> <<38, 35, 51, 52, 59>>       \* "  ->  &#34;
      [] OTHER  -> <<c>>

\* html.EscapeString
RECURSIVE EscapeString(_)
EscapeString(s) ==
    IF s = <<>> THEN <<>> ELSE EscapeByte(Head(s)) \o EscapeString(Tail(s))

(***************************************************************************)
(* The sorts.  sort.Strings and sort.Slice run Go's pattern-defeating       *)
(* quicksort, which sorts a slice of at most 12 elements by insertion:     *)
(* element i moves left while it is less than its left neighbour.          *)
(***************************************************************************)
\* one insertion step of sort.Strings: x moves left past every greater key
RECURSIVE InsertString(_, _)
InsertString(s, x) ==
    IF s # <<>> /\ StrLess(x, s[Len(s)])
    THEN InsertString(SubSeq(s, 1, Len(s) - 1), x) \o <<s[Len(s)]>>
    ELSE s \o <<x>>

\* sort.Strings(familyKeys)
RECURSIVE SortStrings(_)
SortStrings(s) ==
    IF s = <<>> THEN <<>>
    ELSE InsertString(SortStrings(SubSeq(s, 1, Len(s) - 1)), s[Len(s)])

\* the comparison turned around, as a slip of > for < would make it
TextureGreater(a, b) == StrLess(b.Caption, a.Caption)

\* the comparison main hands to sort.Slice
TextureLess(a, b) == StrLess(a.Caption, b.Caption)

\* one insertion step of sort.Slice over textures
RECURSIVE InsertTexture(_, _)
InsertTexture(s, x) ==
    IF s # <<>> /\ TextureLess(x, s[Len(s)])
    THEN InsertTexture(SubSeq(s, 1, Len(s) - 1), x) \o <<s[Len(s)]>>
    ELSE s \o <<x>>

\* sort.Slice(textures, by caption)
RECURSIVE SortTextures(_)
SortTextures(s) ==
    IF s = <<>> THEN <<>>
    ELSE InsertTexture(SortTextures(SubSeq(s, 1, Len(s) - 1)), s[Len(s)])

(***************************************************************************)
(* Classification of one entry (the head of the loop body).                *)
(***************************************************************************)
\* the extensions main accepts: .pcx .gif .png .jpg .tga
AllowedExtensions ==
    { <<46, 112, 99, 120>>, <<46, 103, 105, 102>>, <<46, 112, 110, 103>>,
      <<46, 106, 112, 103>>, <<46, 116, 103, 97>> }

\* the reserved name of a family's full preview image: full.pcx
ReservedFilename == <<102, 117, 108, 108, 46, 112, 99, 120>>

\* parts := strings.Split(strings.ToLower(filePath), string(filepath.Separator))
Parts(filePath) == Split(ToLower(filePath), Separator)

\* parts[len(parts)-2] and parts[len(parts)-1] are read without a length
\* check: with a single part the index is -1 and the Go runtime panics
IndexInRange(filePath) == Len(Parts(filePath)) >= 2

\* the first component in place of the second-to-last
TopLevel(filePath) == Parts(filePath)[1]

Family(filePath) == Parts(filePath)[Len(Parts(filePath)) - 1]

Filename(filePath) == Parts(filePath)[Len(Parts(filePath))]

\* the condition without its reserved-name half
SkippedByExtensionOnly(filePath) ==
    Ext(Filename(filePath)) \notin AllowedExtensions

\* the condition under which main prints "skipping" and continues
Skipped(filePath) ==
    \/ Ext(Filename(filePath)) \notin AllowedExtensions
    \/ Filename(filePath) = ReservedFilename

\* "panic" | "skip" | "accept"
Classify(filePath) ==
    IF ~IndexInRange(filePath) THEN "panic"
    ELSE IF Skipped(filePath) THEN "skip"
    ELSE "accept"

(***************************************************************************)
(* Decoding, thumbnail dimensions, resizing, encoding.                     *)
(***************************************************************************)
\* the decoder main selects: by extension for a directory, image.Decode
\* inside GetImageFromZip for an archive
Decoder(kind, filePath) ==
    IF kind = "dir"
    THEN IF Ext(Filename(filePath)) = <<46, 112, 99, 120>> THEN "pcx"
         ELSE IF Ext(Filename(filePath)) = <<46, 116, 103, 97>> THEN "tga"
         ELSE "generic"
    ELSE "generic"

\* the quotient rounded to the nearest integer, halves away from zero
RoundDiv(a, b) ==
    IF a >= 0 THEN (2 * a + b) \div (2 * b)
    ELSE 0 - ((2 * (0 - a) + b) \div (2 * b))

\* Go's int(float64) conversion of a quotient: truncation toward zero
TruncDiv(a, b) == IF a >= 0 THEN a \div b ELSE 0 - ((0 - a) \div b)

\* newBounds after the if/else at the resize step, for a w x h image and
\* thumbnail size n.  (float64 arithmetic is exact on the products and the
\* quotient truncates to the same integer for all sizes below 2^26.)
NewBounds(w, h, n) ==
    IF w > h
    THEN [X |-> n, Y |-> TruncDiv(n * h, w)]
    ELSE [X |-> TruncDiv(n * w, h), Y |-> n]

\* the bounds of the image resize.Resize(uint(X), uint(Y), img) returns for
\* non-negative X and Y: a zero dimension is derived from the other one (with
\* the library's 0.7 rounding offset), and two zeros return the image as is
ResizedBounds(X, Y, w, h) ==
    IF X = 0 /\ Y = 0 THEN [Dx |-> w, Dy |-> h]
    ELSE IF X = 0 THEN [Dx |-> (7 * h + 10 * w * Y) \div (10 * h), Dy |-> Y]
    ELSE IF Y = 0 THEN [Dx |-> X, Dy |-> (7 * w + 10 * h * X) \div (10 * w)]
    ELSE [Dx |-> X, Dy |-> Y]

\* uint() of a negative int is a length no image can have: resize.Resize
\* cannot allocate it and the run crashes
ResizeCrashes(X, Y) == X < 0 \/ Y < 0

\* jpeg.Encode refuses an image with a side of 65536 pixels or more (a
\* thumbnail that large, if it can be allocated at all)
EncodeFails(b) == b.Dx >= 65536 \/ b.Dy >= 65536

\* the caption: filename span, a space, info span
Caption(filePath, b) ==
    LET filenameWithoutExtension == TrimSuffix(Base(filePath), Ext(filePath))
        imageDimensions == Itoa(b.Dx) \o <<120>> \o Itoa(b.Dy)
        imageFormat == TrimPrefix(Ext(filePath), <<46>>)
        \* <span class='filename'>%s</span>
        filenameSpan ==
            <<60, 115, 112, 97, 110, 32, 99, 108, 97, 115, 115, 61, 39, 102, 105,
              108, 101, 110, 97, 109, 101, 39, 62>>
            \o ToLower(filenameWithoutExtension)
            \o <<60, 47, 115, 112, 97, 110, 62>>
        \* <span class='info'>%s (%s)</span>
        infoSpan ==
            <<60, 115, 112, 97, 110, 32, 99, 108, 97, 115, 115, 61, 39, 105, 110,
              102, 111, 39, 62>>
            \o ToLower(imageDimensions) \o <<32, 40>> \o ToLower(imageFormat)
            \o <<41, 60, 47, 115, 112, 97, 110, 62>>
    IN  filenameSpan \o <<32>> \o infoSpan

\* the Texture of an entry: its caption and its HTML fragment.  The fragment
\* is the fixed template around the data URI and the caption; the URI is the
\* base64 of the JPEG of the resized (and, with an alpha colour model,
\* white-backed) pixels, which the image, its bounds and the backing determine
MakeTexture(filePath, file, b) ==
    [Caption |-> Caption(filePath, b),
     HTML    |-> [uri     |-> [img |-> file.img, Dx |-> b.Dx, Dy |-> b.Dy,
                               backed |-> file.alpha],
                  caption |-> Caption(filePath, b)]]

\* an assignment in place of the append: the family keeps its last texture
AssignTexture(fams, family, texture) ==
    [k \in DOMAIN fams \cup {family} |->
        IF k = family THEN <<texture>> ELSE fams[k]]

\* families[family] = append(families[family], texture)
AppendTexture(fams, family, texture) ==
    IF family \in DOMAIN fams
    THEN [fams EXCEPT ![family] = Append(@, texture)]
    ELSE [k \in DOMAIN fams \cup {family} |->
             IF k = family THEN <<texture>> ELSE fams[k]]

\* an iteration that takes an undecodable entry for a skipped one and lets
\* the loop go on
ProcessEntryLenient(fams, kind, size, filePath, file) ==
    LET nb == NewBounds(file.w, file.h, size)
        rb == ResizedBounds(nb.X, nb.Y, file.w, file.h)
        none == [X |-> 0, Y |-> 0]
        accepted == Classify(filePath) = "accept"
    IN  IF accepted /\ file.decodable /\ ~ResizeCrashes(nb.X, nb.Y) /\ ~EncodeFails(rb)
        THEN [outcome |-> "ok",
              families |-> AppendTexture(fams, Family(filePath),
                                         MakeTexture(filePath, file, rb)),
              opened |-> TRUE, bounds |-> nb, decoder |-> Decoder(kind, filePath)]
        ELSE [outcome |-> IF Classify(filePath) = "panic" THEN "panic" ELSE "skip",
              families |-> fams, opened |-> accepted, bounds |-> none,
              decoder |-> IF accepted THEN Decoder(kind, filePath) ELSE "none"]

\* One iteration of the loop over fileList: what happens to the entry and
\* the families afterwards.  `file` is what the source holds at filePath;
\* `opened` says the entry's bytes were opened and `decoder` by what.
ProcessEntry(fams, kind, size, filePath, file) ==
    LET nb == NewBounds(file.w, file.h, size)
        rb == ResizedBounds(nb.X, nb.Y, file.w, file.h)
        none == [X |-> 0, Y |-> 0]
        Result(outcome, f, opened, bounds) ==
            [outcome |-> outcome, families |-> f, opened |-> opened,
             bounds |-> bounds,
             decoder |-> IF opened THEN Decoder(kind, filePath) ELSE "none"]
    IN  IF Classify(filePath) = "panic" THEN Result("panic", fams, FALSE, none)
        ELSE IF Classify(filePath) = "skip" THEN Result("skip", fams, FALSE, none)
        ELSE IF ~file.decodable THEN Result("decodeerr", fams, TRUE, none)
        ELSE IF ResizeCrashes(nb.X, nb.Y) THEN Result("panic", fams, TRUE, nb)
        ELSE IF EncodeFails(rb) THEN Result("encodeerr", fams, TRUE, nb)
        ELSE Result("ok",
                    AppendTexture(fams, Family(filePath),
                                  MakeTexture(filePath, file, rb)),
                    TRUE, nb)

(***************************************************************************)
(* Page assembly.                                                          *)
(***************************************************************************)
\* the keys of the map in the order a range over it happens to yield them
RECURSIVE KeysInSomeOrder(_)
KeysInSomeOrder(S) ==
    IF S = {} THEN <<>>
    ELSE LET k == CHOOSE k \in S : TRUE IN <<k>> \o KeysInSomeOrder(S \ {k})

\* familyKeys after sort.Strings
FamilyKeys(fams) == SortStrings(KeysInSomeOrder(DOMAIN fams))

\* one <section>: the escaped family name and the fragments in sorted order
Section(fams, family) ==
    LET textures == SortTextures(fams[family])
    IN  [heading  |-> EscapeString(family),
         textures |-> [k \in 1..Len(textures) |-> textures[k].HTML]]

\* the map after the loop over familyKeys: sort.Slice sorts each family's
\* slice in place
SortedFamilies(fams) == [f \in DOMAIN fams |-> SortTextures(fams[f])]

\* the page: title and h1 escaped, the stylesheet sized by ThumbnailSize,
\* the sections joined in the order of the sorted keys
Page(fams, settings) ==
    LET keys == FamilyKeys(fams)
    IN  [title    |-> EscapeString(settings.PageTitle),
         size     |-> settings.ThumbnailSize,
         h1       |-> EscapeString(settings.PageTitle),
         sections |-> [k \in 1..Len(keys) |-> Section(fams, keys[k])]]

(***************************************************************************)
(* Command-line parsing.  args[1] here is os.Args[0]: Go's index i is      *)
(* position i + 1.                                                         *)
(***************************************************************************)
\* "-title"
TitleFlag == <<45, 116, 105, 116, 108, 101>>

\* "-size"
SizeFlag == <<45, 115, 105, 122, 101>>

\* the default page title: "Textures"
DefaultTitle == <<84, 101, 120, 116, 117, 114, 101, 115>>

\* the default thumbnail size
DefaultSize == 128

\* the -title loop from Go index i on: steps by two, the last match wins
RECURSIVE ParseTitle(_, _, _)
ParseTitle(args, i, title) ==
    IF i >= Len(args) THEN title
    ELSE ParseTitle(args, i + 2,
                    IF i + 1 < Len(args) /\ args[i + 1] = TitleFlag
                    THEN args[i + 2] ELSE title)

\* a -size loop that never takes the value
ParseSizeKeepDefault(args, i, size) == [ok |-> TRUE, size |-> size]

\* the -size loop from Go index i on: steps by two, returns on the first
\* value strconv.Atoi rejects
RECURSIVE ParseSize(_, _, _)
ParseSize(args, i, size) ==
    IF i >= Len(args) THEN [ok |-> TRUE, size |-> size]
    ELSE IF i + 1 < Len(args) /\ args[i + 1] = SizeFlag
    THEN IF Atoi(args[i + 2]).ok
         THEN ParseSize(args, i + 2, Atoi(args[i + 2]).val)
         ELSE [ok |-> FALSE, size |-> size]
    ELSE ParseSize(args, i + 2, size)

(***************************************************************************)
(* The inputs: command lines and sources.                                  *)
(***************************************************************************)
\* a file of the source: its path below the source's root (for an archive,
\* its member name) and what decoding its bytes yields (img names the pixel
\* content)
File(path, img, w, h, decodable, alpha) ==
    [path |-> path, img |-> img, w |-> w, h |-> h,
     decodable |-> decodable, alpha |-> alpha]

\* the files a source is drawn from
Pool ==
    { \* a/wood/oak.png and b/wood/oak.png: same family, same size, other pixels
      File(<<97, 47, 119, 111, 111, 100, 47, 111, 97, 107, 46, 112, 110, 103>>,
           1, 2, 1, TRUE, TRUE),
      File(<<98, 47, 119, 111, 111, 100, 47, 111, 97, 107, 46, 112, 110, 103>>,
           2, 2, 1, TRUE, TRUE),
      \* stone/brick.jpg
      File(<<115, 116, 111, 110, 101, 47, 98, 114, 105, 99, 107, 46, 106, 112, 103>>,
           3, 1, 1, TRUE, FALSE),
      \* oak.png, listed with no separator
      File(<<111, 97, 107, 46, 112, 110, 103>>, 4, 1, 2, TRUE, TRUE),
      \* wood/notes.txt
      File(<<119, 111, 111, 100, 47, 110, 111, 116, 101, 115, 46, 116, 120, 116>>,
           5, 1, 1, FALSE, FALSE),
      \* readme.txt, listed with no separator
      File(<<114, 101, 97, 100, 109, 101, 46, 116, 120, 116>>, 6, 1, 1, FALSE, FALSE),
      \* wood/FULL.PCX
      File(<<119, 111, 111, 100, 47, 70, 85, 76, 76, 46, 80, 67, 88>>,
           7, 4, 4, TRUE, FALSE),
      \* wood/full.png
      File(<<119, 111, 111, 100, 47, 102, 117, 108, 108, 46, 112, 110, 103>>,
           8, 4, 4, TRUE, TRUE),
      \* stone/bad.tga, whose bytes do not decode
      File(<<115, 116, 111, 110, 101, 47, 98, 97, 100, 46, 116, 103, 97>>,
           9, 1, 1, FALSE, FALSE),
      \* Wood/oak2.png
      File(<<87, 111, 111, 100, 47, 111, 97, 107, 50, 46, 112, 110, 103>>,
           10, 1, 1, TRUE, TRUE) }

\* os.Args with nothing after the two paths: crf2html fam.crf out.html
BaseArgs ==
    << <<99, 114, 102, 50, 104, 116, 109, 108>>, <<102, 97, 109, 46, 99, 114, 102>>,
       <<111, 117, 116, 46, 104, 116, 109, 108>> >>

\* os.Args with the output path missing: crf2html fam.crf
ShortArgs == SubSeq(BaseArgs, 1, 2)

\* os.Args naming the current directory as the source: crf2html . out.html
DotArgs == [BaseArgs EXCEPT ![2] = <<46>>]

\* the words a command line is drawn from after the two paths:
\* -title  -size  abc  64  0  -3  x  65536
FlagWords ==
    { TitleFlag, SizeFlag, <<97, 98, 99>>, <<54, 52>>, <<48>>, <<45, 51>>, <<120>>,
      <<54, 53, 53, 51, 54>> }

\* every sequence of at most n words
RECURSIVE WordSeqs(_)
WordSeqs(n) ==
    IF n = 0 THEN {<<>>}
    ELSE WordSeqs(n - 1) \cup
         {Append(s, w) : s \in {t \in WordSeqs(n - 1) : Len(t) = n - 1}, w \in FlagWords}

\* the sources with their files among S, at most n of them: a directory, an
\* archive, or nothing that can be opened
Sources(S, n) ==
    {[kind |-> k, files |-> F] :
        k \in {"dir", "zip"}, F \in {G \in SUBSET S : Cardinality(G) <= n}}
    \cup {[kind |-> "none", files |-> {}]}

\* filepath.Join(root, rel) for a clean root: Walk names a file by joining
\* the root it was given and the file's path below it
Join(root, rel) == IF root = <<46>> THEN rel ELSE root \o <<Separator>> \o rel

\* the path main gets for a file: Walk's for a directory at root, the member
\* name for an archive
ListedPath(src, root, f) == IF src.kind = "dir" THEN Join(root, f.path) ELSE f.path

\* the file the source holds at a listed path
FileAt(src, root, filePath) ==
    CHOOSE f \in src.files : ListedPath(src, root, f) = filePath

\* every order the paths of the source's files can be listed in
Orderings(src, root) ==
    LET P == {ListedPath(src, root, f) : f \in src.files}
    IN  {s \in [1..Cardinality(P) -> P] : \A i, j \in 1..Cardinality(P) :
                                             s[i] = s[j] => i = j}

\* filepath.Walk visits the names of each directory in lexical order: path p
\* comes before path q when their components compare so, left to right
RECURSIVE WalkLess(_, _)
WalkLess(p, q) ==
    IF p = <<>> \/ q = <<>> THEN p = <<>> /\ q # <<>>
    ELSE IF Head(p) = Head(q) THEN WalkLess(Tail(p), Tail(q))
    ELSE StrLess(Head(p), Head(q))

\* FileListing: the regular files under the directory, in Walk's order
FileListing(src, root) ==
    CHOOSE s \in Orderings(src, root) :
        \A i, j \in 1..Len(s) :
            i < j => WalkLess(Split(s[i], Separator), Split(s[j], Separator))

\* the orders main can find the source's entries in: Walk's for a
\* directory, the archive's own member order (any) for an archive
EnumerationOrders(src, root) ==
    IF src.kind = "dir" THEN {FileListing(src, root)} ELSE Orderings(src, root)

\* the loop over fileList run to its end or to its first fatal entry
RECURSIVE LoopResult(_, _, _, _)
LoopResult(fams, src, st, list) ==
    IF list = <<>> THEN [outcome |-> "ok", families |-> fams]
    ELSE LET r == ProcessEntry(fams, src.kind, st.ThumbnailSize, Head(list),
                               FileAt(src, st.SourcePath, Head(list)))
         IN  IF r.outcome \in {"ok", "skip"}
             THEN LoopResult(r.families, src, st, Tail(list))
             ELSE [outcome |-> r.outcome, families |-> r.families]

(***************************************************************************)
(* The state of one run.                                                   *)
(***************************************************************************)
VARIABLES
    pc,          \* where main is: "start", "source", "loop", "done"
    exit,        \* how main ended: "none" while it runs
    args,        \* os.Args
    settings,    \* ProgramSettings, but for the constant BackgroundColor
    source,      \* what is at SourcePath: its kind and its files
    fileList,    \* the paths enumerated from the source
    idx,         \* the number of entries of fileList the loop has consumed
    families,    \* map[string][]Texture
    diag,        \* the "skipping" lines printed to stderr, in order
    zipReader,   \* the archive handle: "nil", "open", "closed"
    openFiles,   \* image files opened in directory mode and not yet closed
    ioDone,      \* some file-system call has been made
    decoders,    \* the decoder each opened entry was handed to, in order
    resized,     \* the last call of resize.Resize: image size and bounds asked
    outFile      \* the file at OutputPath

vars == <<pc, exit, args, settings, source, fileList, idx, families, diag,
          zipReader, openFiles, ioDone, decoders, resized, outFile>>

\* the state main starts in, for a command line of A and a source of S
InitWith(A, S) ==
    /\ pc = "start"
    /\ exit = "none"
    /\ args \in A
    /\ settings = [SourcePath |-> <<>>, OutputPath |-> <<>>,
                   PageTitle |-> DefaultTitle, ThumbnailSize |-> DefaultSize]
    /\ source \in S
    /\ fileList = <<>>
    /\ idx = 0
    /\ families = <<>>
    /\ diag = <<>>
    /\ zipReader = "nil"
    /\ openFiles = 0
    /\ ioDone = FALSE
    /\ decoders = <<>>
    /\ resized = [called |-> FALSE, w |-> 0, h |-> 0, X |-> 0, Y |-> 0]
    /\ outFile = [state |-> "prior", data |-> <<>>]

\* a return that runs no deferred call
ReturnWithoutClose(reason) ==
    /\ pc' = "done"
    /\ exit' = reason
    /\ UNCHANGED <<zipReader, openFiles>>

\* a return from main (or a panic unwinding it): the deferred Close calls run
Return(reason) ==
    /\ pc' = "done"
    /\ exit' = reason
    /\ zipReader' = IF zipReader = "open" THEN "closed" ELSE zipReader
    /\ openFiles' = 0

\* main up to the end of the -size loop
ParseArgs ==
    /\ pc = "start"
    /\ IF Len(args) < 3
       THEN /\ Return("usage")
            /\ UNCHANGED settings
       ELSE LET title == ParseTitle(args, 3, DefaultTitle)
                size  == ParseSize(args, 3, DefaultSize)
            IN  /\ settings' = [SourcePath |-> args[2], OutputPath |-> args[3],
                                PageTitle |-> title, ThumbnailSize |-> size.size]
                /\ IF size.ok
                   THEN /\ pc' = "source"
                        /\ UNCHANGED <<exit, zipReader, openFiles>>
                   ELSE Return("badsize")
    /\ UNCHANGED <<args, source, fileList, idx, families, diag, ioDone, decoders,
                   resized, outFile>>

\* os.Stat, then FileListing for a directory or zip.OpenReader and the
\* archive's member names, in the order the archive stores them
OpenSource ==
    /\ pc = "source"
    /\ ioDone' = TRUE
    /\ IF source.kind \in {"dir", "zip"}
       THEN /\ fileList' \in EnumerationOrders(source, settings.SourcePath)
            /\ pc' = "loop"
            /\ zipReader' = IF source.kind = "zip" THEN "open" ELSE zipReader
            /\ UNCHANGED <<exit, openFiles>>
       ELSE /\ Return("srcerr")
            /\ UNCHANGED fileList
    /\ families' = <<>>
    /\ UNCHANGED <<args, settings, source, idx, diag, decoders, resized, outFile>>

\* one iteration of the loop over fileList
ProcessNext ==
    /\ pc = "loop"
    /\ idx < Len(fileList)
    /\ LET filePath == fileList[idx + 1]
           file == FileAt(source, settings.SourcePath, filePath)
           r == ProcessEntry(families, source.kind, settings.ThumbnailSize,
                             filePath, file)
       IN  /\ families' = r.families
           /\ diag' = IF r.outcome = "skip" THEN Append(diag, filePath) ELSE diag
           /\ decoders' = IF r.opened
                          THEN Append(decoders, [path |-> filePath, by |-> r.decoder])
                          ELSE decoders
           /\ resized' = IF r.outcome \in {"ok", "encodeerr"}
                            \/ (r.outcome = "panic" /\ r.opened)
                         THEN [called |-> TRUE, w |-> file.w, h |-> file.h,
                               X |-> r.bounds.X, Y |-> r.bounds.Y]
                         ELSE resized
           /\ IF r.outcome \in {"ok", "skip"}
              THEN /\ idx' = idx + 1
                   /\ openFiles' = IF r.opened /\ source.kind = "dir"
                                   THEN openFiles + 1 ELSE openFiles
                   /\ UNCHANGED <<pc, exit, zipReader>>
              ELSE /\ Return(r.outcome)
                   /\ UNCHANGED idx
    /\ UNCHANGED <<args, settings, source, fileList, ioDone, outFile>>

\* after the loop: the keys and the textures are sorted, the page is built
\* and os.WriteFile writes it.  WriteFile opens the file with O_TRUNC and
\* then writes: it can fail before the file is touched, or after it has
\* been truncated with only part of the page written.
AssembleAndWrite ==
    /\ pc = "loop"
    /\ idx = Len(fileList)
    /\ \E result \in {"ok", "openfails", "writefails"} :
          /\ outFile' = CASE result = "ok" ->
                               [state |-> "complete", data |-> Page(families, settings)]
                          [] result = "openfails" -> outFile
                          [] result = "writefails" -> [state |-> "partial", data |-> <<>>]
          /\ Return(IF result = "ok" THEN "ok" ELSE "writeerr")
    /\ families' = SortedFamilies(families)
    /\ UNCHANGED <<args, settings, source, fileList, idx, diag, ioDone, decoders,
                   resized>>

Next == ParseArgs \/ OpenSource \/ ProcessNext \/ AssembleAndWrite

\* runs over sources of up to MaxEntries files, with the default settings,
\* the source named as fam.crf or as the current directory (which is a
\* directory)
Init ==
    /\ InitWith({ShortArgs, BaseArgs, DotArgs}, Sources(Pool, MaxEntries))
    /\ args = DotArgs => source.kind = "dir"

Spec == Init /\ [][Next]_vars

\* runs of every command line of up to MaxFlags words after the two paths,
\* over an archive of one file or nothing that can be opened
InitArgs ==
    InitWith({ShortArgs} \cup {BaseArgs \o f : f \in WordSeqs(MaxFlags)},
             {s \in Sources({f \in Pool : f.img = 3}, 1) :
                 s.kind = "none" \/ (s.kind = "zip" /\ s.files # {})})

SpecArgs == InitArgs /\ [][Next]_vars

\* runs over one image of every size up to MaxDim x MaxDim, with every
\* -size value from -MaxSize to MaxSize
InitResize ==
    InitWith({ShortArgs} \cup
             {BaseArgs \o <<SizeFlag, Itoa(n)>> : n \in (0 - MaxSize)..MaxSize},
             UNION {Sources({File(<<119, 111, 111, 100, 47, 116, 46, 112, 110, 103>>,
                                  1, w, h, TRUE, TRUE)}, 1) :
                        w \in 1..MaxDim, h \in 1..MaxDim})

SpecResize == InitResize /\ [][Next]_vars

\* files whose names and directories hold characters HTML gives a meaning
EscapePool ==
    { \* stone/a&b.png
      File(<<115, 116, 111, 110, 101, 47, 97, 38, 98, 46, 112, 110, 103>>,
           11, 1, 1, TRUE, TRUE),
      \* r&d/x<y.png
      File(<<114, 38, 100, 47, 120, 60, 121, 46, 112, 110, 103>>,
           12, 1, 1, TRUE, TRUE),
      \* wood/oak.png
      File(<<119, 111, 111, 100, 47, 111, 97, 107, 46, 112, 110, 103>>,
           13, 2, 1, TRUE, TRUE),
      \* wood/notes.txt
      File(<<119, 111, 111, 100, 47, 110, 111, 116, 101, 115, 46, 116, 120, 116>>,
           14, 1, 1, FALSE, FALSE) }

\* os.Args with a title of such characters: -title <T&'">
EscapeArgs ==
    BaseArgs \o <<TitleFlag, <<60, 84, 38, 39, 34, 62>> >>

\* runs over sources of up to MaxEntries of those files, with that title or
\* the default one
InitEscape == InitWith({ShortArgs, BaseArgs, EscapeArgs}, Sources(EscapePool, MaxEntries))

SpecEscape == InitEscape /\ [][Next]_vars

(***************************************************************************)
(* What the claims speak of.                                               *)
(***************************************************************************)
\* the run has ended with the page written in full
PageWritten == pc = "done" /\ exit = "ok" /\ outFile.state = "complete"

\* the sections of the written page
Sections == outFile.data.sections

\* the images (by pixel content) the written page shows
RenderedImgs ==
    UNION {{Sections[i].textures[k].uri.img : k \in 1..Len(Sections[i].textures)} :
              i \in 1..Len(Sections)}

\* the paths of the files whose images the written page shows
RenderedPaths ==
    {ListedPath(source, settings.SourcePath, f) :
        f \in {g \in source.files : g.img \in RenderedImgs}}

\* a path with no separator in it
NoSeparator(filePath) == \A k \in 1..Len(filePath) : filePath[k] # Separator

\* the lower-cased last component of a path
LowerName(filePath) == ToLower(Base(filePath))

\* how many lines of diag name the path
DiagLines(filePath) == Cardinality({k \in 1..Len(diag) : diag[k] = filePath})

\* the loop has consumed entry k of fileList and gone on
Consumed(k) == k <= idx

\* the run has ended at entry k of fileList: the loop never went past it
EndedAt(k) == pc = "done" /\ exit \notin {"ok", "writeerr"} /\ k = idx + 1

\* some texture of the map comes from the file at the path
HasTexture(filePath) ==
    \E f \in DOMAIN families : \E k \in 1..Len(families[f]) :
        families[f][k].HTML.uri.img
            = FileAt(source, settings.SourcePath, filePath).img

(***************************************************************************)
(* C1.  For a fixed set of entries and fixed settings, the page a          *)
(* successful run writes is the same for every order the entries can be    *)
(* enumerated in, also when two accepted entries of one family have equal  *)
(* captions and different pixels.                                          *)
(***************************************************************************)
C1_OrderIndependentPage ==
    PageWritten =>
        \A order \in EnumerationOrders(source, settings.SourcePath) :
            LET r == LoopResult(<<>>, source, settings, order)
            IN  r.outcome = "ok" => Page(r.families, settings) = outFile.data

(***************************************************************************)
(* C2.  At the end of every run the output file either holds the complete  *)
(* page or is as it was before the run; after any fatal error it is        *)
(* neither created, truncated nor partially written.                       *)
(***************************************************************************)
C2_CompleteOrUntouched ==
    pc = "done" =>
        IF exit = "ok"
        THEN outFile = [state |-> "complete", data |-> Page(families, settings)]
        ELSE outFile.state = "prior"

(***************************************************************************)
(* C3.  An entry whose path has no separator is skipped with one           *)
(* diagnostic line and the run goes on with the following entries: the     *)
(* run never ends at such an entry.                                        *)
(***************************************************************************)
C3_FlatPathSkipped ==
    \A k \in 1..Len(fileList) :
        NoSeparator(fileList[k]) =>
            /\ Consumed(k) => DiagLines(fileList[k]) = 1
            /\ ~EndedAt(k)

(***************************************************************************)
(* C4.  An entry whose lower-cased extension is none of .pcx .gif .png     *)
(* .jpg .tga gets a diagnostic, adds no texture to any family, and the     *)
(* run goes on to the later entries.                                       *)
(***************************************************************************)
C4_UnsupportedSkipped ==
    \A k \in 1..Len(fileList) :
        Ext(ToLower(fileList[k])) \notin AllowedExtensions =>
            /\ Consumed(k) => DiagLines(fileList[k]) = 1
            /\ ~HasTexture(fileList[k])
            /\ ~EndedAt(k)

(***************************************************************************)
(* C5.  As claimed: an entry named "full", in any letter case and with     *)
(* any extension, is in no rendered section.                               *)
(***************************************************************************)
C5_FullAnyExtensionExcluded ==
    PageWritten =>
        \A p \in RenderedPaths :
            TrimSuffix(LowerName(p), Ext(LowerName(p))) # <<102, 117, 108, 108>>

(***************************************************************************)
(* C5, amended.  An entry whose lower-cased filename is exactly full.pcx   *)
(* is in no rendered section, whatever the letter case of its path.        *)
(***************************************************************************)
C5_ReservedExcluded ==
    PageWritten =>
        \A p \in RenderedPaths :
            LowerName(p) # <<102, 117, 108, 108, 46, 112, 99, 120>>

\* C5: a page with a texture has been written from a source that lists
\* FULL.PCX in upper case
C5_Witness ==
    /\ PageWritten
    /\ RenderedImgs # {}
    /\ \E k \in 1..Len(fileList) :
          /\ LowerName(fileList[k]) = <<102, 117, 108, 108, 46, 112, 99, 120>>
          /\ Base(fileList[k]) # LowerName(fileList[k])

(***************************************************************************)
(* C6.  The page has exactly one section per distinct family key, the      *)
(* sections are in strictly ascending order of family key, and inside a    *)
(* section the textures are in non-decreasing order of caption.            *)
(***************************************************************************)
C6_SectionsSorted ==
    PageWritten =>
        LET KeyOf(i) == CHOOSE f \in DOMAIN families :
                            EscapeString(f) = Sections[i].heading
        IN  /\ Len(Sections) = Cardinality(DOMAIN families)
            /\ {Sections[i].heading : i \in 1..Len(Sections)}
                   = {EscapeString(f) : f \in DOMAIN families}
            /\ DOMAIN families =
                   {Split(ToLower(p), Separator)[Len(Split(ToLower(p), Separator)) - 1] :
                       p \in RenderedPaths}
            /\ \A i, j \in 1..Len(Sections) :
                   i < j => StrLess(KeyOf(i), KeyOf(j))
            /\ \A i \in 1..Len(Sections) :
                   \A k, l \in 1..Len(Sections[i].textures) :
                       k < l => ~StrLess(Sections[i].textures[l].caption,
                                         Sections[i].textures[k].caption)

\* C6: a page of two sections has been written, one of them holding two
\* textures that were enumerated in the opposite of their caption order
C6_Witness ==
    /\ PageWritten
    /\ Len(Sections) >= 2
    /\ \E i \in 1..Len(Sections) : \E a, b \in 1..Len(fileList) :
          /\ a < b
          /\ Len(Sections[i].textures) >= 2
          /\ Sections[i].textures[1].uri.img
                 = FileAt(source, settings.SourcePath, fileList[b]).img
          /\ Sections[i].textures[2].uri.img
                 = FileAt(source, settings.SourcePath, fileList[a]).img
          /\ Sections[i].textures[1].caption # Sections[i].textures[2].caption

(***************************************************************************)
(* C7.  For a decoded image of positive width and height and the           *)
(* configured size N, the bounds handed to the resize step map the longer  *)
(* side to N (both sides for a square) and the shorter side to             *)
(* floor(N * shorter / longer), which is at most N and less than one       *)
(* pixel from the exact proportional value.                                *)
(***************************************************************************)
C7_LongerSideToN ==
    resized.called =>
        LET n == settings.ThumbnailSize
            long  == IF resized.w > resized.h THEN resized.w ELSE resized.h
            short == IF resized.w > resized.h THEN resized.h ELSE resized.w
            newLong  == IF resized.w > resized.h THEN resized.X ELSE resized.Y
            newShort == IF resized.w > resized.h THEN resized.Y ELSE resized.X
        IN  /\ newLong = n
            /\ newShort = (n * short) \div long
            /\ newShort <= n
            /\ n * short - newShort * long < long
            /\ newShort * long - n * short < long
            /\ resized.w = resized.h => resized.X = n /\ resized.Y = n

(***************************************************************************)
(* C8.  For a decoded image of positive width and height, both bounds      *)
(* handed to the resize step are at least 1, also when the longer side is  *)
(* more than N times the shorter one.  (Stated for the sizes N >= 1, so    *)
(* that a size of zero or less is not what refutes it.)                    *)
(***************************************************************************)
C8_BoundsAtLeastOne ==
    resized.called /\ settings.ThumbnailSize >= 1 =>
        resized.X >= 1 /\ resized.Y >= 1

(***************************************************************************)
(* C9.  When the command line holds, anywhere after the two paths, a       *)
(* -size flag followed by a value that is no integer, the run ends before  *)
(* any file I/O and the output file is untouched.  (A "-size" that is the  *)
(* value of a -title flag just before it is not counted as a flag.)        *)
(***************************************************************************)
C9_BadSizeNoIO ==
    (\E k \in 4..(Len(args) - 1) :
        /\ args[k] = <<45, 115, 105, 122, 101>>
        /\ (k = 4 \/ args[k - 1] # <<45, 116, 105, 116, 108, 101>>)
        /\ ~Atoi(args[k + 1]).ok)
    => /\ ~ioDone
       /\ outFile.state = "prior"

(***************************************************************************)
(* C10.  Whenever the loop over the entries runs, the thumbnail size is a  *)
(* positive integer.                                                       *)
(***************************************************************************)
C10_SizePositive ==
    pc = "loop" => settings.ThumbnailSize >= 1

\* the positions of args (Go index 3, 5, ...) at which the usage line puts
\* the flag, with a value after it
GivenAt(flag) ==
    {k \in 4..(Len(args) - 1) : k % 2 = 0 /\ args[k] = flag}

\* the value of the last such flag
GivenValue(flag) ==
    args[(CHOOSE k \in GivenAt(flag) : \A l \in GivenAt(flag) : l <= k) + 1]

\* the word is nowhere after the two paths
Absent(flag) == \A k \in 4..Len(args) : args[k] # flag

\* the arguments have been parsed and accepted
Parsed == pc # "start" /\ exit \notin {"usage", "badsize"}

(***************************************************************************)
(* C11.  With nothing after the two paths the title is "Textures" and the  *)
(* size is 128.  A -title or -size flag given with a value, where the      *)
(* usage line puts it, sets its setting to that value, and a setting whose *)
(* flag is nowhere on the command line keeps its default.                  *)
(***************************************************************************)
C11_DefaultsAndFlags ==
    Parsed =>
        /\ Len(args) = 3 =>
               /\ settings.PageTitle = <<84, 101, 120, 116, 117, 114, 101, 115>>
               /\ settings.ThumbnailSize = 128
        /\ GivenAt(<<45, 116, 105, 116, 108, 101>>) # {} =>
               settings.PageTitle = GivenValue(<<45, 116, 105, 116, 108, 101>>)
        /\ GivenAt(<<45, 115, 105, 122, 101>>) # {} =>
               settings.ThumbnailSize
                   = Atoi(GivenValue(<<45, 115, 105, 122, 101>>)).val
        /\ Absent(<<45, 116, 105, 116, 108, 101>>) =>
               settings.PageTitle = <<84, 101, 120, 116, 117, 114, 101, 115>>
        /\ Absent(<<45, 115, 105, 122, 101>>) => settings.ThumbnailSize = 128
        /\ PageWritten =>
               /\ outFile.data.title = EscapeString(settings.PageTitle)
               /\ outFile.data.h1 = EscapeString(settings.PageTitle)
               /\ outFile.data.size = settings.ThumbnailSize

\* C11: a page has been written for a command line with -size 64 and no
\* -title: its thumbnails are sized 64 and its title is the default
C11_Witness ==
    /\ PageWritten
    /\ args = BaseArgs \o << <<45, 115, 105, 122, 101>>, <<54, 52>> >>
    /\ outFile.data.size = 64
    /\ outFile.data.title = <<84, 101, 120, 116, 117, 114, 101, 115>>

(***************************************************************************)
(* C12.  Every entry that is opened is handed to the decoder its           *)
(* lower-cased extension selects: .pcx to the palette decoder, .tga to     *)
(* the true-colour decoder, any other to the generic one, from a           *)
(* directory and from an archive alike.                                    *)
(***************************************************************************)
C12_DecoderByExtension ==
    \A k \in 1..Len(decoders) :
        LET extension == Ext(ToLower(decoders[k].path))
        IN  decoders[k].by =
                IF extension = <<46, 112, 99, 120>> THEN "pcx"
                ELSE IF extension = <<46, 116, 103, 97>> THEN "tga"
                ELSE "generic"

\* the position of a path in fileList
PositionOf(filePath) == CHOOSE k \in 1..Len(fileList) : fileList[k] = filePath

\* entry k of fileList passes classification
Accepted(k) == IndexInRange(fileList[k]) /\ ~Skipped(fileList[k])

\* entry k of fileList decodes and its thumbnail encodes
Sound(k) ==
    LET file == FileAt(source, settings.SourcePath, fileList[k])
        nb == NewBounds(file.w, file.h, settings.ThumbnailSize)
    IN  /\ file.decodable
        /\ ~ResizeCrashes(nb.X, nb.Y)
        /\ ~EncodeFails(ResizedBounds(nb.X, nb.Y, file.w, file.h))

(***************************************************************************)
(* C13.  The entries are opened in enumeration order, one per iteration;   *)
(* the loop never goes past an accepted entry that fails to decode or      *)
(* encode; an entry after the one the loop stands at is neither opened     *)
(* nor in any family, and a run ended by a decode or encode error has      *)
(* ended at the entry it opened last.                                      *)
(***************************************************************************)
C13_HaltAtFirstError ==
    /\ \A k \in 1..Len(fileList) :
          /\ Consumed(k) /\ Accepted(k) => Sound(k)
          /\ HasTexture(fileList[k]) => Consumed(k)
    /\ \A d \in 1..Len(decoders) :
          /\ PositionOf(decoders[d].path) <= idx + 1
          /\ \A e \in 1..Len(decoders) :
                d < e => PositionOf(decoders[d].path) < PositionOf(decoders[e].path)
    /\ exit \in {"decodeerr", "encodeerr"} =>
          /\ pc = "done"
          /\ idx < Len(fileList)
          /\ decoders # <<>>
          /\ decoders[Len(decoders)].path = fileList[idx + 1]

\* C13: a run has ended on a decode error at an entry that is neither the
\* first nor the last: an earlier entry is in a family and a later entry
\* that would have been accepted and decoded was never opened
C13_Witness ==
    /\ exit = "decodeerr"
    /\ idx >= 1
    /\ HasTexture(fileList[1])
    /\ \E k \in (idx + 2)..Len(fileList) :
          /\ Accepted(k)
          /\ Sound(k)
          /\ ~HasTexture(fileList[k])
          /\ \A d \in 1..Len(decoders) : decoders[d].path # fileList[k]

(***************************************************************************)
(* C14.  For an archive the read handle is open for as long as the loop    *)
(* over the entries runs, it is closed when the run has ended, however it  *)
(* ended, and once closed the run has ended: it is not used or opened      *)
(* again.  A run over anything else never opens it.                        *)
(***************************************************************************)
C14_ArchiveHandleScoped ==
    /\ source.kind = "zip" /\ pc = "loop" => zipReader = "open"
    /\ source.kind = "zip" /\ pc = "done" /\ ioDone => zipReader = "closed"
    /\ zipReader = "closed" => pc = "done"
    /\ pc = "done" => zipReader # "open"
    /\ source.kind # "zip" => zipReader = "nil"

\* C14: a run over an archive has ended on a write error after it had
\* processed an entry, with the handle closed
C14_Witness ==
    /\ source.kind = "zip"
    /\ pc = "done"
    /\ exit = "writeerr"
    /\ idx >= 1
    /\ decoders # <<>>
    /\ zipReader = "closed"

\* the places of the written page: section i, texture t
Places ==
    UNION {{<<i, t>> : t \in 1..Len(Sections[i].textures)} : i \in 1..Len(Sections)}

\* the places that show the image of entry k of fileList
PlacesOf(k) ==
    {p \in Places :
        Sections[p[1]].textures[p[2]].uri.img
            = FileAt(source, settings.SourcePath, fileList[k]).img}

(***************************************************************************)
(* C15.  On a successful run every entry that passes classification is     *)
(* shown at exactly one place of the page, in the section of its family;   *)
(* an entry that does not pass is shown nowhere; the page shows as many    *)
(* textures as there are accepted entries, and no section is empty.        *)
(***************************************************************************)
C15_OneTexturePerAccepted ==
    PageWritten =>
        /\ \A k \in 1..Len(fileList) :
              IF Accepted(k)
              THEN /\ Cardinality(PlacesOf(k)) = 1
                   /\ \A p \in PlacesOf(k) :
                         Sections[p[1]].heading
                             = EscapeString(Split(ToLower(fileList[k]), Separator)
                                   [Len(Split(ToLower(fileList[k]), Separator)) - 1])
              ELSE PlacesOf(k) = {}
        /\ Cardinality(Places)
               = Cardinality({k \in 1..Len(fileList) : Accepted(k)})
        /\ \A i \in 1..Len(Sections) : Len(Sections[i].textures) >= 1

\* C15: a page has been written from three entries, two accepted ones of
\* one family and one that was skipped
C15_Witness ==
    /\ PageWritten
    /\ Len(fileList) = 3
    /\ Cardinality({k \in 1..Len(fileList) : Accepted(k)}) = 2
    /\ Len(Sections) = 1
    /\ Len(Sections[1].textures) = 2

\* the listed path of the file a texture shows
PathOf(texture) ==
    ListedPath(source, settings.SourcePath,
               CHOOSE f \in source.files : f.img = texture.HTML.uri.img)

\* the name of the directory a path's file lies in, as the path spells it
ParentName(filePath) ==
    Split(filePath, Separator)[Len(Split(filePath, Separator)) - 1]

(***************************************************************************)
(* C16.  At every point of the run each texture in the map is under the    *)
(* key that is the lower-cased name of the directory its file lies in      *)
(* (the second-to-last component of its path, at any depth): it is put     *)
(* there and stays there, and files under equally named parents, in any    *)
(* letter case and anywhere in the tree, share a key.                      *)
(***************************************************************************)
C16_FamilyIsParentName ==
    \A f \in DOMAIN families : \A k \in 1..Len(families[f]) :
        /\ f = ToLower(ParentName(PathOf(families[f][k])))
        /\ \A g \in DOMAIN families : \A l \in 1..Len(families[g]) :
              ToLower(ParentName(PathOf(families[g][l])))
                  = ToLower(ParentName(PathOf(families[f][k]))) => g = f

\* C16: a page has been written with a/wood/oak.png and Wood/oak2.png, files
\* of different directories at different depths, in one section
C16_Witness ==
    /\ PageWritten
    /\ DOMAIN families = {<<119, 111, 111, 100>>}
    /\ \E k, l \in 1..Len(families[<<119, 111, 111, 100>>]) :
          LET p == PathOf(families[<<119, 111, 111, 100>>][k])
              q == PathOf(families[<<119, 111, 111, 100>>][l])
          IN  /\ Len(Split(p, Separator)) # Len(Split(q, Separator))
              /\ ParentName(p) # ParentName(q)

\* the size asked of resize.Resize for the side that is not the longer one
\* (the width when the image is square or upright), and that side and the
\* longer one of the image
NewShort == IF resized.w > resized.h THEN resized.Y ELSE resized.X

Short == IF resized.w > resized.h THEN resized.h ELSE resized.w

Long == IF resized.w > resized.h THEN resized.w ELSE resized.h

(***************************************************************************)
(* C17.  As claimed, for the sizes N >= 1: the shorter side asked of the   *)
(* resize step is the integer nearest to N * shorter / longer (either      *)
(* neighbour when the value lies halfway), with the longer side N.         *)
(***************************************************************************)
C17_NearestInteger ==
    resized.called /\ settings.ThumbnailSize >= 1 =>
        /\ (IF resized.w > resized.h THEN resized.X ELSE resized.Y)
               = settings.ThumbnailSize
        /\ 2 * (NewShort * Long - settings.ThumbnailSize * Short) <= Long
        /\ 2 * (settings.ThumbnailSize * Short - NewShort * Long) <= Long

(***************************************************************************)
(* C17, amended.  The shorter side asked of the resize step is             *)
(* N * shorter / longer with its fraction dropped (truncated toward        *)
(* zero, the floor for N >= 0), with the longer side N.                    *)
(***************************************************************************)
C17_Truncated ==
    resized.called =>
        /\ (IF resized.w > resized.h THEN resized.X ELSE resized.Y)
               = settings.ThumbnailSize
        /\ IF settings.ThumbnailSize >= 0
           THEN /\ NewShort * Long <= settings.ThumbnailSize * Short
                /\ settings.ThumbnailSize * Short < (NewShort + 1) * Long
           ELSE /\ NewShort * Long >= settings.ThumbnailSize * Short
                /\ settings.ThumbnailSize * Short > (NewShort - 1) * Long

\* C17: a 3x4 image has been resized for -size 5: 5 * 3 / 4 = 3.75 and the
\* width asked for is 3
C17_Witness ==
    /\ resized.called
    /\ settings.ThumbnailSize = 5
    /\ resized.w = 3 /\ resized.h = 4
    /\ resized.X = 3 /\ resized.Y = 5

\* the lower-cased, extension-stripped filename of the file a fragment of
\* the written page shows
StemOf(fragment) ==
    LET p == ListedPath(source, settings.SourcePath,
                        CHOOSE f \in source.files : f.img = fragment.uri.img)
    IN  ToLower(TrimSuffix(Base(p), Ext(p)))

(***************************************************************************)
(* C18.  In every section of the written page, of two textures whose       *)
(* lower-cased extension-stripped filenames differ, the one whose          *)
(* filename is the lesser in lexicographic order comes first, also when    *)
(* one filename is a prefix of the other or ends in a digit.               *)
(***************************************************************************)
C18_FilenameOrder ==
    PageWritten =>
        \A i \in 1..Len(Sections) : \A k, l \in 1..Len(Sections[i].textures) :
            k < l /\ StemOf(Sections[i].textures[k]) # StemOf(Sections[i].textures[l])
                => StrLess(StemOf(Sections[i].textures[k]),
                           StemOf(Sections[i].textures[l]))

(***************************************************************************)
(* C19.  In directory mode at most one entry file is open at any point of  *)
(* the run (an entry's file is closed before the next one is opened), and  *)
(* none is open once the run has ended, however it ended.                  *)
(***************************************************************************)
C19_OneHandleAtATime ==
    source.kind = "dir" =>
        /\ openFiles <= 1
        /\ pc = "done" => openFiles = 0

\* <span class='filename'> and </span>
FilenameOpen ==
    <<60, 115, 112, 97, 110, 32, 99, 108, 97, 115, 115, 61, 39, 102, 105, 108, 101,
      110, 97, 109, 101, 39, 62>>

SpanClose == <<60, 47, 115, 112, 97, 110, 62>>

(***************************************************************************)
(* C20.  In the written page the title (in the head and in the heading),   *)
(* every family name and the filename in every caption stand in their      *)
(* HTML-escaped form: '<', '>', '&' and the quotes of the input are        *)
(* replaced by entities.                                                   *)
(***************************************************************************)
C20_InputEscaped ==
    PageWritten =>
        /\ outFile.data.title = EscapeString(settings.PageTitle)
        /\ outFile.data.h1 = EscapeString(settings.PageTitle)
        /\ {Sections[i].heading : i \in 1..Len(Sections)}
               = {EscapeString(f) : f \in DOMAIN families}
        /\ \A i \in 1..Len(Sections) : \A k \in 1..Len(Sections[i].textures) :
              LET caption == Sections[i].textures[k].caption
                  name == EscapeString(StemOf(Sections[i].textures[k]))
              IN  /\ Len(caption) >= Len(FilenameOpen) + Len(name) + Len(SpanClose)
                  /\ SubSeq(caption, 1, Len(FilenameOpen) + Len(name) + Len(SpanClose))
                         = FilenameOpen \o name \o SpanClose

=============================================================================
